---------------------------- MODULE Spec2Model ----------------------------
(***************************************************************************)
(* Model of fewsats_mcp/server.py: the FewsatsMCPServer tool registry      *)
(* (list_tools), the dispatcher (call_tool), the response normalizer       *)
(* (_handle_response) and the request-serving loop (run).                  *)
(*                                                                         *)
(* Text (a Python str) is a sequence of lexemes; a lexeme is a non-empty   *)
(* TLA+ string standing for a run of characters.  The characters that      *)
(* matter to JSON are lexemes of their own: the quote, the backslash, the  *)
(* newline, the space and the punctuation { } [ ] : ,                      *)
(***************************************************************************)
EXTENDS Integers, Sequences, FiniteSets, TLC

(***************************************************************************)
(* Bounds                                                                  *)
(***************************************************************************)
\* number of requests the session loop accepts in one run of the model
MaxRequests == 2

(***************************************************************************)
(* Python values, as uniform records                                       *)
(***************************************************************************)
PyNone == [t |-> "None", n |-> 0, s |-> <<>>, xs |-> <<>>, ks |-> <<>>]
PyBool(b) == [t |-> "bool", n |-> IF b THEN 1 ELSE 0, s |-> <<>>, xs |-> <<>>, ks |-> <<>>]
PyInt(i) == [t |-> "int", n |-> i, s |-> <<>>, xs |-> <<>>, ks |-> <<>>]
PyStr(text) == [t |-> "str", n |-> 0, s |-> text, xs |-> <<>>, ks |-> <<>>]
PyList(items) == [t |-> "list", n |-> 0, s |-> <<>>, xs |-> items, ks |-> <<>>]
PyTuple(items) == [t |-> "tuple", n |-> 0, s |-> <<>>, xs |-> items, ks |-> <<>>]
\* a dict keeps its keys in insertion order; keys are texts
PyDict(keys, vals) == [t |-> "dict", n |-> 0, s |-> <<>>, xs |-> vals, ks |-> keys]

\* a one-lexeme text
T(lexeme) == <<lexeme>>

QUOTE == "\""
BACKSLASH == "\\"
NEWLINE == "\n"
SPACE == " "

HasKey(d, k) == \E j \in 1..Len(d.ks) : d.ks[j] = k
\* d[k], defined when HasKey(d, k)
GetItem(d, k) == d.xs[CHOOSE j \in 1..Len(d.ks) : d.ks[j] = k]
\* d[k] = v : replaces the value of an existing key, appends a new key
SetItem(d, k, v) ==
    IF HasKey(d, k)
    THEN PyDict(d.ks, [j \in 1..Len(d.xs) |-> IF d.ks[j] = k THEN v ELSE d.xs[j]])
    ELSE PyDict(Append(d.ks, k), Append(d.xs, v))

(***************************************************************************)
(* json.dumps(value, indent=2): server.py lines 208 and 217.               *)
(* The values of this model are all JSON-serializable, so the default=str  *)
(* hook of line 208 is never called.                                       *)
(***************************************************************************)
\* the integers whose numerals occur in the modelled texts
Numerals == {0, 1, 7, 100, 200, 500}

RECURSIVE Spaces(_)
Spaces(k) == IF k = 0 THEN <<>> ELSE <<SPACE>> \o Spaces(k - 1)

\* newline followed by the indentation of the nesting level
Indent(level) == <<NEWLINE>> \o Spaces(2 * level)

\* the body of a JSON string literal: quote, backslash and newline escaped
RECURSIVE EscapeText(_)
EscapeText(text) ==
    IF text = <<>> THEN <<>>
    ELSE LET h == Head(text)
             e == IF h = QUOTE THEN <<BACKSLASH, QUOTE>>
                  ELSE IF h = BACKSLASH THEN <<BACKSLASH, BACKSLASH>>
                  ELSE IF h = NEWLINE THEN <<BACKSLASH, "n">>
                  ELSE <<h>>
         IN e \o EscapeText(Tail(text))

StringLiteral(text) == <<QUOTE>> \o EscapeText(text) \o <<QUOTE>>

RECURSIVE DumpsAt(_, _)
RECURSIVE DumpItems(_, _, _)
RECURSIVE DumpMembers(_, _, _, _)

DumpItems(items, j, level) ==
    IF j > Len(items) THEN <<>>
    ELSE (IF j > 1 THEN <<",">> ELSE <<>>)
         \o Indent(level) \o DumpsAt(items[j], level)
         \o DumpItems(items, j + 1, level)

DumpMembers(keys, vals, j, level) ==
    IF j > Len(keys) THEN <<>>
    ELSE (IF j > 1 THEN <<",">> ELSE <<>>)
         \o Indent(level) \o StringLiteral(keys[j]) \o <<":", SPACE>>
         \o DumpsAt(vals[j], level)
         \o DumpMembers(keys, vals, j + 1, level)

DumpsAt(v, level) ==
    CASE v.t = "None" -> <<"null">>
      [] v.t = "bool" -> IF v.n = 1 THEN <<"true">> ELSE <<"false">>
      [] v.t = "int" -> <<ToString(v.n)>>
      [] v.t = "str" -> StringLiteral(v.s)
      [] v.t \in {"list", "tuple"} ->
            IF v.xs = <<>> THEN <<"[", "]">>
            ELSE <<"[">> \o DumpItems(v.xs, 1, level + 1) \o Indent(level) \o <<"]">>
      [] v.t = "dict" ->
            IF v.ks = <<>> THEN <<"{", "}">>
            ELSE <<"{">> \o DumpMembers(v.ks, v.xs, 1, level + 1) \o Indent(level) \o <<"}">>

json_dumps(v) == DumpsAt(v, 0)

(***************************************************************************)
(* response.json(): server.py line 42.  A recursive-descent JSON parser    *)
(* over lexemes; a parse returns [ok, val, rest].                          *)
(***************************************************************************)
ParseFail == [ok |-> FALSE, val |-> PyNone, rest |-> <<>>]
ParseOk(v, r) == [ok |-> TRUE, val |-> v, rest |-> r]

RECURSIVE SkipWs(_)
SkipWs(ts) ==
    IF ts # <<>> /\ Head(ts) \in {SPACE, NEWLINE} THEN SkipWs(Tail(ts)) ELSE ts

IsNumeral(lexeme) == \E i \in Numerals : ToString(i) = lexeme
NumeralValue(lexeme) == CHOOSE i \in Numerals : ToString(i) = lexeme

RECURSIVE ParseString(_, _)
RECURSIVE ParseValue(_)
RECURSIVE ParseItems(_, _)
RECURSIVE ParseMembers(_, _)

\* after the opening quote: up to the closing, unescaped quote
ParseString(ts, acc) ==
    IF ts = <<>> THEN ParseFail
    ELSE LET h == Head(ts) IN
         IF h = QUOTE THEN ParseOk(PyStr(acc), Tail(ts))
         ELSE IF h = NEWLINE THEN ParseFail
         ELSE IF h = BACKSLASH THEN
              IF Len(ts) < 2 THEN ParseFail
              ELSE IF ts[2] = QUOTE THEN ParseString(Tail(Tail(ts)), Append(acc, QUOTE))
              ELSE IF ts[2] = BACKSLASH THEN ParseString(Tail(Tail(ts)), Append(acc, BACKSLASH))
              ELSE IF ts[2] = "n" THEN ParseString(Tail(Tail(ts)), Append(acc, NEWLINE))
              ELSE ParseFail
         ELSE ParseString(Tail(ts), Append(acc, h))

\* after "[" and at least one item expected
ParseItems(ts, acc) ==
    LET v == ParseValue(ts) IN
    IF ~v.ok THEN ParseFail
    ELSE LET r == SkipWs(v.rest) IN
         IF r = <<>> THEN ParseFail
         ELSE IF Head(r) = "," THEN ParseItems(Tail(r), Append(acc, v.val))
         ELSE IF Head(r) = "]" THEN ParseOk(PyList(Append(acc, v.val)), Tail(r))
         ELSE ParseFail

\* after "{" and at least one member expected
ParseMembers(ts, d) ==
    LET t1 == SkipWs(ts) IN
    IF t1 = <<>> \/ Head(t1) # QUOTE THEN ParseFail
    ELSE LET k == ParseString(Tail(t1), <<>>) IN
         IF ~k.ok THEN ParseFail
         ELSE LET t2 == SkipWs(k.rest) IN
              IF t2 = <<>> \/ Head(t2) # ":" THEN ParseFail
              ELSE LET v == ParseValue(Tail(t2)) IN
                   IF ~v.ok THEN ParseFail
                   ELSE LET r == SkipWs(v.rest)
                            d2 == SetItem(d, k.val.s, v.val)
                        IN IF r = <<>> THEN ParseFail
                           ELSE IF Head(r) = "," THEN ParseMembers(Tail(r), d2)
                           ELSE IF Head(r) = "}" THEN ParseOk(d2, Tail(r))
                           ELSE ParseFail

ParseValue(toks) ==
    LET ts == SkipWs(toks) IN
    IF ts = <<>> THEN ParseFail
    ELSE LET h == Head(ts)
             r == Tail(ts)
         IN CASE h = "null" -> ParseOk(PyNone, r)
              [] h = "true" -> ParseOk(PyBool(TRUE), r)
              [] h = "false" -> ParseOk(PyBool(FALSE), r)
              [] h = QUOTE -> ParseString(r, <<>>)
              [] h = "[" ->
                    LET r1 == SkipWs(r) IN
                    IF r1 # <<>> /\ Head(r1) = "]" THEN ParseOk(PyList(<<>>), Tail(r1))
                    ELSE ParseItems(r, <<>>)
              [] h = "{" ->
                    LET r1 == SkipWs(r) IN
                    IF r1 # <<>> /\ Head(r1) = "}" THEN ParseOk(PyDict(<<>>, <<>>), Tail(r1))
                    ELSE ParseMembers(r, PyDict(<<>>, <<>>))
              [] OTHER -> IF IsNumeral(h) THEN ParseOk(PyInt(NumeralValue(h)), r)
                          ELSE ParseFail

\* json.loads(text): ok is FALSE where the decoder raises JSONDecodeError
json_loads(text) ==
    LET p == ParseValue(text) IN
    IF p.ok /\ SkipWs(p.rest) = <<>> THEN p ELSE ParseFail

(***************************************************************************)
(* Tool registry: list_tools, server.py lines 49-180.                      *)
(* A schema node is a uniform record; the "description" annotations of     *)
(* the properties carry no constraint and are left out.                    *)
(***************************************************************************)
SString == [type |-> "string", props |-> <<>>, schemas |-> <<>>, required |-> <<>>, enum |-> <<>>, items |-> <<>>]
SNumber == [type |-> "number", props |-> <<>>, schemas |-> <<>>, required |-> <<>>, enum |-> <<>>, items |-> <<>>]
SEnum(values) == [type |-> "string", props |-> <<>>, schemas |-> <<>>, required |-> <<>>, enum |-> values, items |-> <<>>]
SArray(item) == [type |-> "array", props |-> <<>>, schemas |-> <<>>, required |-> <<>>, enum |-> <<>>, items |-> <<item>>]
SObject(names, nodes, req) == [type |-> "object", props |-> names, schemas |-> nodes, required |-> req, enum |-> <<>>, items |-> <<>>]

Tool(nm, descr, schema) == [name |-> nm, description |-> descr, inputSchema |-> schema]

EmptySchema == SObject(<<>>, <<>>, <<>>)

L402OfferItemSchema ==
    SObject(<<T("id"), T("amount"), T("currency"), T("description"), T("title")>>,
            <<SString, SNumber, SString, SString, SString>>,
            <<T("id"), T("amount"), T("currency")>>)

L402OfferSchema ==
    SObject(<<T("offers"), T("payment_context_token"), T("payment_request_url"), T("version")>>,
            <<SArray(L402OfferItemSchema), SString, SString, SString>>,
            <<T("offers"), T("payment_context_token"), T("payment_request_url"), T("version")>>)

PayOfferSchema ==
    SObject(<<T("offer_id"), T("l402_offer")>>,
            <<SString, L402OfferSchema>>,
            <<T("offer_id"), T("l402_offer")>>)

PaymentInfoSchema == SObject(<<T("pid")>>, <<SString>>, <<T("pid")>>)

X402AcceptsItemSchema ==
    SObject(<<T("asset"), T("description"), T("extra"), T("maxAmountRequired"),
              T("maxTimeoutSeconds"), T("mimeType"), T("network"), T("payTo"),
              T("resource"), T("scheme")>>,
            <<SString, SString,
              SObject(<<T("name"), T("version")>>, <<SString, SString>>, <<>>),
              SString, SNumber, SString, SString, SString, SString, SString>>,
            <<T("asset"), T("network"), T("payTo"), T("resource")>>)

X402PayloadSchema ==
    SObject(<<T("accepts"), T("error"), T("x402Version")>>,
            <<SArray(X402AcceptsItemSchema), SString, SNumber>>,
            <<T("accepts"), T("x402Version")>>)

X402Schema ==
    SObject(<<T("chain"), T("x402_payload")>>,
            <<SEnum(<<T("base-sepolia"), T("base")>>), X402PayloadSchema>>,
            <<T("chain"), T("x402_payload")>>)

\* a registry that lost its last entry
list_tools_short ==
    << Tool(T("balance"), T("Retrieve the balance"), EmptySchema),
       Tool(T("payment_methods"), T("Retrieve the user's payment methods."), EmptySchema),
       Tool(T("billing_info"), T("Retrieve the user's billing information."), EmptySchema),
       Tool(T("pay_offer"), T("Pays an offer_id from the l402_offers."), PayOfferSchema),
       Tool(T("payment_info"), T("Retrieve the details of a payment."), PaymentInfoSchema) >>

\* the list the handler builds on every "list tools" request
list_tools ==
    << Tool(T("balance"),
            T("Retrieve the balance of the user's wallet. You will rarely need to call this unless instructed by the user, or to troubleshoot payment issues. Fewsats will automatically add balance when needed."),
            EmptySchema),
       Tool(T("payment_methods"),
            T("Retrieve the user's payment methods. You will rarely need to call this unless instructed by the user, or to troubleshoot payment issues. Fewsats will automatically select the best payment method."),
            EmptySchema),
       Tool(T("billing_info"),
            T("Retrieve the user's billing information. Returns billing details including name, address, and other relevant information. This information can also be used as shipping address for purchases."),
            EmptySchema),
       Tool(T("pay_offer"),
            T("Pays an offer_id from the l402_offers. If payment status is 'needs_review' inform the user he will have to approve it at app.fewsats.com"),
            PayOfferSchema),
       Tool(T("payment_info"),
            T("Retrieve the details of a payment. If payment status is 'needs_review' inform the user he will have to approve it at app.fewsats.com"),
            PaymentInfoSchema),
       Tool(T("create_x402_payment_header"),
            T("Creates a payment header for the X402 protocol. Returns a dict with the payment_header field that must be set in X-PAYMENT header in a x402 http request."),
            X402Schema) >>

(***************************************************************************)
(* Response normalizer: _handle_response, server.py lines 39-44.           *)
(* A backend response is [status_code, text]; response.json() decodes the  *)
(* text and raises where the text is not JSON.  The bare except takes the  *)
(* text branch on any failure, so nothing is raised: raised is <<>>.       *)
(***************************************************************************)
Response(code, body) == [status_code |-> code, text |-> body]

Exc(class, message) == [cls |-> class, msg |-> message]

\* no except branch: the decoder's error leaves the normalizer
_handle_response_strict(response) ==
    LET p == json_loads(response.text) IN
    IF p.ok
    THEN [raised |-> <<>>, value |-> PyTuple(<<PyInt(response.status_code), p.val>>)]
    ELSE [raised |-> <<Exc("JSONDecodeError", <<"Expecting value">>)>>, value |-> PyNone]

_handle_response(response) ==
    LET p == json_loads(response.text) IN
    IF p.ok
    THEN [raised |-> <<>>, value |-> PyTuple(<<PyInt(response.status_code), p.val>>)]
    ELSE [raised |-> <<>>, value |-> PyTuple(<<PyInt(response.status_code), PyStr(response.text)>>)]

(***************************************************************************)
(* Dispatcher: call_tool, server.py lines 182-217                          *)
(***************************************************************************)
\* a call of a method of self.fewsats with its positional arguments
Call(operation, arguments) == [op |-> operation, args |-> arguments]

\* KeyError(key): str() of it is the repr of the key
KeyError(key) == Exc("KeyError", <<"'">> \o key \o <<"'">>)

\* the message without the name
UnknownToolNoName(name) == Exc("ValueError", <<"Unknown tool">>)

\* ValueError(f"Unknown tool: {name}"), line 205
UnknownTool(name) == Exc("ValueError", <<"Unknown tool: ">> \o name)

Raise(e) == [raised |-> <<e>>, call |-> <<>>]
Issue(c) == [raised |-> <<>>, call |-> <<c>>]

\* arguments.get("l402_offer") in place of the subscript of line 195
RoutePayOfferGet(arguments) ==
    IF ~HasKey(arguments, T("offer_id")) THEN Raise(KeyError(T("offer_id")))
    ELSE Issue(Call("pay_offer",
                    <<GetItem(arguments, T("offer_id")),
                      IF HasKey(arguments, T("l402_offer"))
                      THEN GetItem(arguments, T("l402_offer")) ELSE PyNone>>))

\* lines 193-196
RoutePayOffer(arguments) ==
    IF ~HasKey(arguments, T("offer_id")) THEN Raise(KeyError(T("offer_id")))
    ELSE IF ~HasKey(arguments, T("l402_offer")) THEN Raise(KeyError(T("l402_offer")))
    ELSE Issue(Call("pay_offer", <<GetItem(arguments, T("offer_id")),
                                   GetItem(arguments, T("l402_offer"))>>))

\* arguments.get("pid") in place of the subscript of line 198
RoutePaymentInfoGet(arguments) ==
    Issue(Call("payment_info",
               <<IF HasKey(arguments, T("pid")) THEN GetItem(arguments, T("pid"))
                 ELSE PyNone>>))

\* lines 197-199
RoutePaymentInfo(arguments) ==
    IF ~HasKey(arguments, T("pid")) THEN Raise(KeyError(T("pid")))
    ELSE Issue(Call("payment_info", <<GetItem(arguments, T("pid"))>>))

\* the backend called with the chain before the payload
RouteX402ChainFirst(arguments) ==
    IF ~HasKey(arguments, T("chain")) THEN Raise(KeyError(T("chain")))
    ELSE IF ~HasKey(arguments, T("x402_payload")) THEN Raise(KeyError(T("x402_payload")))
    ELSE Issue(Call("pay_x402_offer", <<GetItem(arguments, T("chain")),
                                        GetItem(arguments, T("x402_payload"))>>))

\* lines 200-203
RouteX402(arguments) ==
    IF ~HasKey(arguments, T("chain")) THEN Raise(KeyError(T("chain")))
    ELSE IF ~HasKey(arguments, T("x402_payload")) THEN Raise(KeyError(T("x402_payload")))
    ELSE Issue(Call("pay_x402_offer", <<GetItem(arguments, T("x402_payload")),
                                        GetItem(arguments, T("chain"))>>))

\* the if/elif chain of lines 187-205 up to the backend call: either the
\* exception raised before any call, or the one call that is issued
Route(name, arguments) ==
    IF name = T("balance") THEN Issue(Call("balance", <<>>))
    ELSE IF name = T("payment_methods") THEN Issue(Call("payment_methods", <<>>))
    ELSE IF name = T("billing_info") THEN Issue(Call("billing_info", <<>>))
    ELSE IF name = T("pay_offer") THEN RoutePayOffer(arguments)
    ELSE IF name = T("payment_info") THEN RoutePaymentInfo(arguments)
    ELSE IF name = T("create_x402_payment_header") THEN RouteX402(arguments)
    ELSE Raise(UnknownTool(name))

TextContent(body) == [type |-> "text", text |-> body]

\* line 208: the list returned on success
SuccessReturn(result) == <<TextContent(json_dumps(result))>>

\* an except block that returns nothing
ErrorReturnEmpty(e, name, arguments) == <<>>

\* lines 212-217: the list returned by the except block
ErrorReturn(e, name, arguments) ==
    <<TextContent(json_dumps(
        PyDict(<<T("error"), T("tool"), T("arguments")>>,
               <<PyStr(e.msg), PyStr(name), arguments>>)))>>

\* the classes the model raises; all derive from Exception
ExceptionClasses ==
    {"KeyError", "ValueError", "JSONDecodeError", "ConnectError", "TimeoutException"}

\* an except clause that names only the errors call_tool raises itself
CaughtByExceptOwn(e) == e.cls \in {"KeyError", "ValueError"}

\* "except Exception", line 210
CaughtByExcept(e) == e.cls \in ExceptionClasses

\* the backend call awaited
AwaitPointsBackend == {"backend"}

\* the await expressions inside call_tool: there are none, every backend
\* call of lines 188-203 is a plain synchronous call
AwaitPoints == {}

(***************************************************************************)
(* Inputs: the requests a client sends and the behaviours of the backend   *)
(***************************************************************************)
RegisteredNames ==
    {T("balance"), T("payment_methods"), T("billing_info"),
     T("pay_offer"), T("payment_info"), T("create_x402_payment_header")}

ToolNames == RegisteredNames \cup {T("frobnicate")}

MinimalL402Offer ==
    PyDict(<<T("offers"), T("payment_context_token"), T("payment_request_url"), T("version")>>,
           <<PyList(<<PyDict(<<T("id"), T("amount"), T("currency")>>,
                             <<PyStr(T("o1")), PyInt(100), PyStr(T("usd"))>>)>>),
             PyStr(T("tok")), PyStr(T("https://pay")), PyStr(T("0.2.2"))>>)

MinimalX402Payload ==
    PyDict(<<T("accepts"), T("x402Version")>>,
           <<PyList(<<PyDict(<<T("asset"), T("network"), T("payTo"), T("resource")>>,
                             <<PyStr(T("0x..")), PyStr(T("base")), PyStr(T("0x..")),
                               PyStr(T("https://x"))>>)>>),
             PyInt(1)>>)

EmptyDict == PyDict(<<>>, <<>>)

ArgumentChoices ==
    { EmptyDict,
      PyDict(<<T("pid")>>, <<PyStr(T("abc"))>>),
      PyDict(<<T("pid")>>, <<PyInt(7)>>),
      PyDict(<<T("offer_id")>>, <<PyStr(T("o1"))>>),
      PyDict(<<T("l402_offer")>>, <<MinimalL402Offer>>),
      PyDict(<<T("offer_id"), T("l402_offer")>>, <<PyStr(T("o1")), MinimalL402Offer>>),
      PyDict(<<T("offer_id"), T("l402_offer")>>, <<PyInt(7), EmptyDict>>),
      PyDict(<<T("chain"), T("x402_payload")>>, <<PyStr(T("base")), MinimalX402Payload>>),
      PyDict(<<T("chain"), T("x402_payload")>>, <<PyStr(T("mainnet")), EmptyDict>>),
      PyDict(<<T("x402_payload")>>, <<MinimalX402Payload>>),
      PyDict(<<T("chain")>>, <<PyStr(T("base-sepolia"))>>) }

StatusCodes == {200, 500}

Bodies ==
    { <<"{", QUOTE, "balance", QUOTE, ":", SPACE, "100", "}">>,
      <<"{", QUOTE, "payment_header", QUOTE, ":", QUOTE, "abc", QUOTE, "}">>,
      <<"not", SPACE, "json">>,
      <<>>,
      <<"{", QUOTE, "balance", QUOTE, ":">>,
      <<"100">>,
      <<"100", SPACE, "x">>,
      <<QUOTE, "a", BACKSLASH, QUOTE, "b", QUOTE>>,
      <<QUOTE, "a", NEWLINE, "b", QUOTE>>,
      <<"[", "1", ",", SPACE, "null", ",", "true", "]", NEWLINE>>,
      <<"{", QUOTE, "a", QUOTE, ":", "1", ",", QUOTE, "a", QUOTE, ":", "7", "}">> }

BackendResponses == {Response(c, b) : c \in StatusCodes, b \in Bodies}

\* what a backend operation raises instead of returning
BackendExceptions ==
    { Exc("ConnectError", <<"connection", SPACE, "refused">>),
      Exc("TimeoutException", <<"timed", SPACE, "out", SPACE, QUOTE, "read", QUOTE,
                                BACKSLASH, NEWLINE>>) }

(***************************************************************************)
(* State                                                                   *)
(***************************************************************************)
VARIABLES
    nreq,      \* number of requests accepted so far
    tasks,     \* the handler coroutine of each request and its locals
    emitted    \* ids of the requests answered, one entry per response sent

vars == <<nreq, tasks, emitted>>

Ids == 1..MaxRequests

\* kind: "list" or "invoke"; pc: "unused", "start", "backend" (a backend
\* call is in flight), "returned" (the handler has returned), "done" (the
\* response is sent and the locals are gone), "crashed" (an exception left
\* the handler); outcome: "", "listing", "success", "error"
BlankTask ==
    [kind |-> "", pc |-> "unused", name |-> <<>>, arguments |-> EmptyDict,
     calls |-> <<>>, raw |-> <<>>, exc |-> <<>>, ret |-> <<>>, listing |-> <<>>,
     outcome |-> ""]

NewTask(kind, name, arguments) ==
    [BlankTask EXCEPT !.kind = kind, !.pc = "start", !.name = name,
                      !.arguments = arguments]

\* a coroutine holds the event-loop thread from its start until it has
\* answered, except while it waits at an await
Running(i) ==
    /\ tasks[i].pc \in {"start", "backend", "returned"}
    /\ tasks[i].pc \notin AwaitPoints

Crashed == \E i \in Ids : tasks[i].pc = "crashed"

CanStep(i) == ~Crashed /\ \A j \in Ids \ {i} : ~Running(j)

Init ==
    /\ nreq = 0
    /\ tasks = [i \in Ids |-> BlankTask]
    /\ emitted = <<>>

(***************************************************************************)
(* Session loop: run, server.py lines 219-226, delegating to Server.run    *)
(***************************************************************************)
\* the loop takes the next request off the transport and starts its handler
Accept(kind, name, arguments) ==
    /\ nreq < MaxRequests
    /\ ~Crashed
    /\ \A j \in Ids : ~Running(j)
    /\ nreq' = nreq + 1
    /\ tasks' = [tasks EXCEPT ![nreq + 1] = NewTask(kind, name, arguments)]
    /\ UNCHANGED emitted

AcceptList == Accept("list", <<>>, EmptyDict)

AcceptInvoke == \E name \in ToolNames, arguments \in ArgumentChoices :
                    Accept("invoke", name, arguments)

RECURSIVE Repeat(_, _)
Repeat(x, k) == IF k = 0 THEN <<>> ELSE <<x>> \o Repeat(x, k - 1)

\* the loop sends what the handler returned, then drops the handler's frame
Emit(i) ==
    /\ tasks[i].pc = "returned"
    /\ CanStep(i)
    /\ emitted' = emitted \o
          (IF tasks[i].kind = "list" THEN <<i>> ELSE Repeat(i, Len(tasks[i].ret)))
    /\ tasks' = [tasks EXCEPT ![i] = [BlankTask EXCEPT !.pc = "done",
                                         !.kind = tasks[i].kind,
                                         !.outcome = tasks[i].outcome]]
    /\ UNCHANGED nreq

(***************************************************************************)
(* Handlers                                                                *)
(***************************************************************************)
\* list_tools handler, lines 49-180
ListTools(i) ==
    /\ tasks[i].pc = "start"
    /\ tasks[i].kind = "list"
    /\ CanStep(i)
    /\ tasks' = [tasks EXCEPT ![i].pc = "returned", ![i].listing = list_tools,
                              ![i].outcome = "listing"]
    /\ UNCHANGED <<nreq, emitted>>

\* lines 210-217: the except block, entered with exception e
Except(task, e) ==
    IF CaughtByExcept(e)
    THEN [task EXCEPT !.pc = "returned", !.exc = <<e>>, !.outcome = "error",
                      !.ret = ErrorReturn(e, task.name, task.arguments)]
    ELSE [task EXCEPT !.pc = "crashed", !.exc = <<e>>]

\* call_tool from its entry to the backend call (or to its return, when an
\* exception is raised before any call), lines 185-205
CallToolBegin(i) ==
    /\ tasks[i].pc = "start"
    /\ tasks[i].kind = "invoke"
    /\ CanStep(i)
    /\ LET r == Route(tasks[i].name, tasks[i].arguments) IN
       tasks' = [tasks EXCEPT ![i] =
                    IF r.raised # <<>> THEN Except(@, r.raised[1])
                    ELSE [@ EXCEPT !.pc = "backend", !.calls = @ \o r.call]]
    /\ UNCHANGED <<nreq, emitted>>

\* the backend call returns: _handle_response, json.dumps and the return of
\* line 208
BackendReturns(i, response) ==
    /\ tasks[i].pc = "backend"
    /\ CanStep(i)
    /\ LET h == _handle_response(response) IN
       tasks' = [tasks EXCEPT ![i] =
                    IF h.raised # <<>> THEN Except([@ EXCEPT !.raw = <<response>>], h.raised[1])
                    ELSE [@ EXCEPT !.pc = "returned", !.raw = <<response>>,
                                   !.outcome = "success",
                                   !.ret = SuccessReturn(h.value)]]
    /\ UNCHANGED <<nreq, emitted>>

\* the backend call raises: the except block of lines 210-217
BackendRaises(i, e) ==
    /\ tasks[i].pc = "backend"
    /\ CanStep(i)
    /\ tasks' = [tasks EXCEPT ![i] = Except(@, e)]
    /\ UNCHANGED <<nreq, emitted>>

Next ==
    \/ AcceptList
    \/ AcceptInvoke
    \/ \E i \in Ids : ListTools(i)
    \/ \E i \in Ids : CallToolBegin(i)
    \/ \E i \in Ids, response \in BackendResponses : BackendReturns(i, response)
    \/ \E i \in Ids, e \in BackendExceptions : BackendRaises(i, e)
    \/ \E i \in Ids : Emit(i)

Spec == Init /\ [][Next]_vars

(***************************************************************************)
(* Vocabulary of the properties                                            *)
(***************************************************************************)
\* the handler of invocation i has returned and its response is not yet sent
Returned(i) == tasks[i].kind = "invoke" /\ tasks[i].pc = "returned"

\* the decoded text of the one TextContent of a returned invocation
Envelope(i) == json_loads(tasks[i].ret[1].text)

ErrorKeys == <<T("error"), T("tool"), T("arguments")>>

\* text is the JSON rendering of an object {error, tool, arguments}
IsErrorEnvelope(text) ==
    LET p == json_loads(text) IN
    /\ p.ok
    /\ p.val.t = "dict"
    /\ p.val.ks = ErrorKeys
    /\ p.val.xs[1].t = "str"
    /\ p.val.xs[2].t = "str"
    /\ p.val.xs[3].t = "dict"

\* text is the JSON rendering of a pair [status, payload]
IsSuccessEnvelope(text) ==
    LET p == json_loads(text) IN
    /\ p.ok
    /\ p.val.t = "list"
    /\ Len(p.val.xs) = 2
    /\ p.val.xs[1].t = "int"

\* the error envelope of invocation i carries exactly message, name, arguments
ErrorEnvelopeIs(i, message) ==
    /\ Len(tasks[i].ret) = 1
    /\ tasks[i].ret[1].type = "text"
    /\ Envelope(i).ok
    /\ Envelope(i).val = PyDict(ErrorKeys,
                                <<PyStr(message), PyStr(tasks[i].name), tasks[i].arguments>>)

Occurrences(seq, x) == Cardinality({k \in 1..Len(seq) : seq[k] = x})

\* the descriptor registered under a name
Descriptor(name) == list_tools[CHOOSE k \in 1..Len(list_tools) : list_tools[k].name = name]

\* the required top-level keys the registry declares for a registered name
RequiredKeys(name) == Descriptor(name).inputSchema.required

AllRequiredPresent(name, arguments) ==
    \A k \in 1..Len(RequiredKeys(name)) : HasKey(arguments, RequiredKeys(name)[k])

\* JSON-Schema validity of a value against a schema node
RECURSIVE Validates(_, _)
Validates(schema, v) ==
    CASE schema.type = "string" ->
            /\ v.t = "str"
            /\ schema.enum # <<>> => \E k \in 1..Len(schema.enum) : schema.enum[k] = v.s
      [] schema.type = "number" -> v.t = "int"
      [] schema.type = "array" ->
            /\ v.t = "list"
            /\ \A k \in 1..Len(v.xs) : Validates(schema.items[1], v.xs[k])
      [] schema.type = "object" ->
            /\ v.t = "dict"
            /\ \A k \in 1..Len(schema.required) : HasKey(v, schema.required[k])
            /\ \A k \in 1..Len(schema.props) :
                  HasKey(v, schema.props[k]) =>
                      Validates(schema.schemas[k], GetItem(v, schema.props[k]))

(***************************************************************************)
(* C1: every invocation, whatever its name, arguments and backend          *)
(* behaviour, produces exactly one output envelope: the handler returns    *)
(* one text item that is a full success envelope or a full error envelope, *)
(* no exception leaves the handler, and each answered request has exactly  *)
(* one response sent, each unanswered one none.                            *)
(***************************************************************************)
ExactlyOneEnvelope ==
    /\ ~Crashed
    /\ \A i \in Ids :
          /\ Returned(i) =>
                /\ Len(tasks[i].ret) = 1
                /\ tasks[i].ret[1].type = "text"
                /\ \/ (tasks[i].outcome = "success" /\ IsSuccessEnvelope(tasks[i].ret[1].text))
                   \/ (tasks[i].outcome = "error" /\ IsErrorEnvelope(tasks[i].ret[1].text))
          /\ Occurrences(emitted, i) = IF tasks[i].pc = "done" THEN 1 ELSE 0

\* an invocation that failed and one that succeeded have both been answered
ExactlyOneEnvelopeWitness ==
    /\ tasks[1].kind = "invoke" /\ tasks[1].pc = "done" /\ tasks[1].outcome = "error"
    /\ tasks[2].kind = "invoke" /\ tasks[2].pc = "done" /\ tasks[2].outcome = "success"
    /\ emitted = <<1, 2>>

(***************************************************************************)
(* C2: when the backend operation raises, the handler returns the error    *)
(* envelope {error: str(e), tool: name, arguments: the original            *)
(* arguments}; no exception reaches the session loop, and once everything  *)
(* accepted is answered the loop can accept the next request.              *)
(***************************************************************************)
BackendFailureContained ==
    /\ ~Crashed
    /\ \A i \in Ids :
          (tasks[i].pc \in {"returned", "crashed"} /\ tasks[i].calls # <<>> /\ tasks[i].exc # <<>>) =>
              /\ Returned(i)
              /\ tasks[i].exc[1] \in BackendExceptions
              /\ ErrorEnvelopeIs(i, tasks[i].exc[1].msg)
    /\ (nreq < MaxRequests /\ \A i \in Ids : tasks[i].pc \in {"unused", "done"}) =>
          ENABLED AcceptList

\* after a failed invocation, payment_info with pid "abc" meets a raising backend
BackendFailureContainedWitness ==
    /\ tasks[1].pc = "done" /\ tasks[1].outcome = "error"
    /\ Returned(2)
    /\ tasks[2].name = T("payment_info")
    /\ tasks[2].arguments = PyDict(<<T("pid")>>, <<PyStr(T("abc"))>>)
    /\ tasks[2].calls # <<>>
    /\ tasks[2].exc # <<>>

(***************************************************************************)
(* C3: invoking a name that is not one of the six registered names gives   *)
(* an error envelope whose tool is the supplied name, whose arguments are  *)
(* the received arguments verbatim and whose error is "Unknown tool: "     *)
(* followed by the name.                                                   *)
(***************************************************************************)
SixNames ==
    <<T("balance"), T("payment_methods"), T("billing_info"), T("pay_offer"),
      T("payment_info"), T("create_x402_payment_header")>>

IsRegistered(name) == \E k \in 1..Len(SixNames) : SixNames[k] = name

UnknownToolEnvelope ==
    \A i \in Ids :
        (tasks[i].kind = "invoke" /\ ~IsRegistered(tasks[i].name)) =>
            /\ tasks[i].pc \in {"start", "returned", "done"}
            /\ Returned(i) => ErrorEnvelopeIs(i, <<"Unknown tool: ">> \o tasks[i].name)

\* "frobnicate" invoked with non-empty arguments has been handled
UnknownToolEnvelopeWitness ==
    \E i \in Ids :
        /\ Returned(i)
        /\ tasks[i].name = T("frobnicate")
        /\ tasks[i].arguments = PyDict(<<T("pid")>>, <<PyStr(T("abc"))>>)

(***************************************************************************)
(* C4: invoking pay_offer, payment_info or create_x402_payment_header      *)
(* with arguments that lack a required top-level key gives an error        *)
(* envelope whose tool is the tool name and whose arguments are the exact  *)
(* input mapping.                                                          *)
(***************************************************************************)
MissingArgumentEnvelope ==
    \A i \in Ids :
        (Returned(i) /\ IsRegistered(tasks[i].name)
           /\ ~AllRequiredPresent(tasks[i].name, tasks[i].arguments)) =>
            /\ tasks[i].outcome = "error"
            /\ Len(tasks[i].ret) = 1
            /\ IsErrorEnvelope(tasks[i].ret[1].text)
            /\ Envelope(i).val.xs[2] = PyStr(tasks[i].name)
            /\ Envelope(i).val.xs[3] = tasks[i].arguments

\* pay_offer invoked with offer_id but without l402_offer has been handled
MissingArgumentEnvelopeWitness ==
    \E i \in Ids :
        /\ Returned(i)
        /\ tasks[i].name = T("pay_offer")
        /\ tasks[i].arguments = PyDict(<<T("offer_id")>>, <<PyStr(T("o1"))>>)

(***************************************************************************)
(* C5: no backend operation is called with arguments that violate the      *)
(* inputSchema of the invoked tool.                                        *)
(***************************************************************************)
BackendCallsValidated ==
    \A i \in Ids :
        tasks[i].calls # <<>> =>
            Validates(Descriptor(tasks[i].name).inputSchema, tasks[i].arguments)

(***************************************************************************)
(* C6: a registered name invoked with all its required arguments calls     *)
(* exactly the backend operation of the name-to-operation mapping with     *)
(* exactly the extracted arguments, the X402 payload before the chain,     *)
(* and no other backend operation.                                         *)
(***************************************************************************)
ExpectedCall(name, arguments) ==
    CASE name = T("balance") -> Call("balance", <<>>)
      [] name = T("payment_methods") -> Call("payment_methods", <<>>)
      [] name = T("billing_info") -> Call("billing_info", <<>>)
      [] name = T("pay_offer") ->
            Call("pay_offer", <<GetItem(arguments, T("offer_id")),
                                GetItem(arguments, T("l402_offer"))>>)
      [] name = T("payment_info") ->
            Call("payment_info", <<GetItem(arguments, T("pid"))>>)
      [] name = T("create_x402_payment_header") ->
            Call("pay_x402_offer", <<GetItem(arguments, T("x402_payload")),
                                     GetItem(arguments, T("chain"))>>)

DispatchMapping ==
    \A i \in Ids :
        (tasks[i].pc \in {"backend", "returned"} /\ tasks[i].kind = "invoke"
           /\ IsRegistered(tasks[i].name)
           /\ AllRequiredPresent(tasks[i].name, tasks[i].arguments)) =>
            tasks[i].calls = <<ExpectedCall(tasks[i].name, tasks[i].arguments)>>

\* create_x402_payment_header with chain "base" and the minimal payload is
\* waiting for the backend
DispatchMappingWitness ==
    \E i \in Ids :
        /\ tasks[i].pc = "backend"
        /\ tasks[i].name = T("create_x402_payment_header")
        /\ tasks[i].arguments =
              PyDict(<<T("chain"), T("x402_payload")>>, <<PyStr(T("base")), MinimalX402Payload>>)

(***************************************************************************)
(* C7: the normalizer never raises and keeps the status: the payload is    *)
(* the parsed body when the body parses and the raw text otherwise, and    *)
(* the text of a successful envelope is the serialization of that pair.    *)
(***************************************************************************)
NormalizedPayload(response) ==
    IF json_loads(response.text).ok THEN json_loads(response.text).val
    ELSE PyStr(response.text)

NormalizeTotal ==
    \A i \in Ids :
        (tasks[i].pc \in {"returned", "crashed"} /\ tasks[i].raw # <<>>) =>
            LET r == tasks[i].raw[1] IN
            /\ Returned(i)
            /\ tasks[i].exc = <<>>
            /\ tasks[i].outcome = "success"
            /\ Len(tasks[i].ret) = 1
            /\ tasks[i].ret[1].text =
                  json_dumps(PyTuple(<<PyInt(r.status_code), NormalizedPayload(r)>>))
            /\ Envelope(i).ok
            /\ Envelope(i).val = PyList(<<PyInt(r.status_code), NormalizedPayload(r)>>)
            /\ (r = Response(200, <<"{", QUOTE, "balance", QUOTE, ":", SPACE, "100", "}">>)) =>
                  Envelope(i).val =
                      PyList(<<PyInt(200), PyDict(<<T("balance")>>, <<PyInt(100)>>)>>)
            /\ (r = Response(500, <<"not", SPACE, "json">>)) =>
                  Envelope(i).val = PyList(<<PyInt(500), PyStr(<<"not", SPACE, "json">>)>>)

\* a backend answered 500 with the body "not json"
NormalizeTotalWitness ==
    \E i \in Ids :
        /\ Returned(i)
        /\ tasks[i].raw = <<Response(500, <<"not", SPACE, "json">>)>>

(***************************************************************************)
(* C8: after any sequence of requests a list request returns the same six  *)
(* descriptors in the same order, each name once, each with a non-empty    *)
(* description, and never fails.                                           *)
(***************************************************************************)
RegistryStable ==
    \A i \in Ids :
        (tasks[i].kind = "list" /\ tasks[i].pc \in {"returned", "crashed"}) =>
            /\ tasks[i].pc = "returned"
            /\ Len(tasks[i].listing) = 6
            /\ \A k \in 1..6 :
                  /\ tasks[i].listing[k].name = SixNames[k]
                  /\ tasks[i].listing[k].description # <<>>
                  /\ \A j \in 1..Len(tasks[i].listing[k].description) :
                        tasks[i].listing[k].description[j] # ""
            /\ \A k, j \in 1..6 :
                  tasks[i].listing[k].name = tasks[i].listing[j].name => k = j

\* a list request answered after a failed invocation
RegistryStableWitness ==
    /\ tasks[1].kind = "invoke" /\ tasks[1].pc = "done" /\ tasks[1].outcome = "error"
    /\ tasks[2].kind = "list" /\ tasks[2].pc = "returned"

(***************************************************************************)
(* C9: requests are processed one at a time: at most one request is being  *)
(* processed and at most one backend call is in flight at any moment,      *)
(* every earlier request is answered before the next one is accepted, and  *)
(* responses are sent one per request in request order.                    *)
(***************************************************************************)
OneAtATime ==
    /\ Cardinality({i \in Ids : tasks[i].pc = "backend"}) <= 1
    /\ Cardinality({i \in Ids : tasks[i].pc \in {"start", "backend", "returned"}}) <= 1
    /\ \A i \in Ids : i < nreq => tasks[i].pc = "done"
    /\ \A i \in Ids : i > nreq => tasks[i].pc = "unused"
    /\ emitted = [k \in 1..Len(emitted) |-> k]

\* the second request waits for the backend after the first was answered
OneAtATimeWitness ==
    /\ tasks[1].pc = "done"
    /\ tasks[2].pc = "backend"
    /\ emitted = <<1>>

(***************************************************************************)
(* C10: an invocation issues at most one backend call: one when the name   *)
(* is registered and every required top-level key is present, none when    *)
(* the name is unknown or a key is missing; a call that raised or          *)
(* returned an error status is not repeated.                               *)
(***************************************************************************)
AtMostOneBackendCall ==
    \A i \in Ids :
        /\ Len(tasks[i].calls) <= 1
        /\ (tasks[i].kind = "invoke" /\ tasks[i].pc \in {"backend", "returned"}) =>
              Len(tasks[i].calls) =
                  IF IsRegistered(tasks[i].name)
                     /\ AllRequiredPresent(tasks[i].name, tasks[i].arguments)
                  THEN 1 ELSE 0
        /\ (Returned(i) /\ tasks[i].calls = <<>>) =>
              tasks[i].raw = <<>> /\ tasks[i].outcome = "error"

\* payment_info without pid returned, after an invocation whose backend
\* call failed was answered
AtMostOneBackendCallWitness ==
    /\ tasks[1].pc = "done" /\ tasks[1].outcome = "error"
    /\ Returned(2)
    /\ tasks[2].name = T("payment_info")
    /\ tasks[2].arguments = EmptyDict
    /\ tasks[2].calls = <<>>

=============================================================================
